---- MODULE Spec2Model ----
(***************************************************************************)
(* Model of the question cache of python_quiz (src/app.py and src/main.py, *)
(* whose generator / cache / worker / accessor code is identical):         *)
(*   generar_pregunta        the question generator                       *)
(*   pregunta_cache          queue.Queue(maxsize=CACHE_SIZE)               *)
(*   precargar_preguntas     the refill worker thread                      *)
(*   obtener_pregunta_cache  the accessor called by the request handlers   *)
(*                                                                         *)
(* Python values are tagged records [t, v].  A str is a sequence of        *)
(* tokens (words); a dict is a TLA+ function from key names to values.     *)
(***************************************************************************)
EXTENDS Integers, Sequences, FiniteSets, TLC

VARIABLES
    pregunta_cache,  \* the items held by the queue, oldest first
    enq,             \* number of items the worker has put so far (next identity)
    entregadas,      \* identities taken out of the queue by get(), in order
    llamadas,        \* number of calls of client.models.generate_content so far
    wpc,             \* worker position: "check", "generate", "put", "sleep"
    wpregunta,       \* the worker's local variable pregunta (NoValue if unset)
    pausa,           \* seconds of the time.sleep the worker is in (0 if none)
    cpc,             \* per consumer: "idle", "get", "fallback", "returned", "raised"
    cret,            \* per consumer: what obtener_pregunta_cache gave (Outcome)
    cup,             \* per consumer: the upstream outcome its fallback met
    obtenidas,       \* number of obtener_pregunta_cache calls started
    wup,             \* what the upstream did in the worker's last generar_pregunta()
    espera,          \* per consumer: its get() found the queue empty and waits
    variante,        \* the front end: "flask" (app.py) or "fastapi" (main.py)
    session,         \* the stored session of the one client (NoSession if none)
    qres,            \* what the last request of the client ended with
    qobt,            \* obtener_pregunta_cache calls since the session began
    qans,            \* answers the client submitted since the session began
    gin,             \* generator harness: the upstream outcome under test
    gout             \* generator harness: the outcome of generar_pregunta

qvars == <<variante, session, qres, qobt, qans>>

vars == <<pregunta_cache, enq, entregadas, llamadas, wpc, wpregunta, wup, pausa,
          cpc, cret, cup, espera, obtenidas, gin, gout, qvars>>

(***************************************************************************)
(* Program constants and bounds                                            *)
(***************************************************************************)
CACHE_SIZE == 200
CACHE_MIN == 100
QUIZ_LEN == 10      \* if session['total'] >= 10

NumConsumers == 2   \* concurrent request handlers
MaxObtain == 2      \* obtener_pregunta_cache calls per behaviour
MaxObtainLive == 1  \* the same, in the specifications with fairness
MaxCalls == 3       \* upstream calls per behaviour when the upstream is arbitrary
MaxTextLen == 3     \* tokens in a response text of the generator harness
MaxAnswers == 11    \* answers a client submits in one session

Consumers == 1..NumConsumers

(***************************************************************************)
(* Python values                                                           *)
(***************************************************************************)
None == [t |-> "none", v |-> <<>>]
Str(s) == [t |-> "str", v |-> s]
List(l) == [t |-> "list", v |-> l]
Num(n) == [t |-> "num", v |-> n]
Dict(f) == [t |-> "dict", v |-> f]

isinstance(x, type) == x.t = type

\* dict.get(key) and dict.get(key, default)
DictGet(f, key, default) == IF key \in DOMAIN f THEN f[key] ELSE default

\* "marker in s" for a str s: substring test on the token sequence
StrContains(s, marker) == \E i \in 1..Len(s) : s[i] = marker

QUOTA_MARKER == "RESOURCE_EXHAUSTED"

\* str.strip(): drops leading and trailing whitespace tokens
RECURSIVE lstrip(_)
lstrip(s) == IF s # <<>> /\ Head(s) = " " THEN lstrip(Tail(s)) ELSE s

RECURSIVE rstrip(_)
rstrip(s) == IF s # <<>> /\ s[Len(s)] = " " THEN rstrip(SubSeq(s, 1, Len(s) - 1)) ELSE s

strip(s) == rstrip(lstrip(s))

(***************************************************************************)
(* Outcomes of a call: a returned value or a raised exception (str(e))     *)
(***************************************************************************)
Return(x) == [kind |-> "return", value |-> x]
Raise(m) == [kind |-> "raise", msg |-> m]
NoOutcome == [kind |-> "none"]
NoValue == [t |-> "unset", v |-> <<>>]

(***************************************************************************)
(* The model's answers.  A response text is a sequence of tokens: " "      *)
(* (whitespace), "FENCE" (the three backquotes of a Markdown fence),       *)
(* "json" (the word after an opening fence), "x" (any text that is not     *)
(* JSON) and the names of JSON documents, whose parsed values JsonDocs     *)
(* gives.                                                                  *)
(***************************************************************************)
Q1 == Str(<<"Que", "imprime", "print(1+1)?">>)
K1 == Str(<<"print(1+1)">>)
A4 == List(<<Str(<<"1">>), Str(<<"2">>), Str(<<"3">>), Str(<<"4">>)>>)
R1 == Str(<<"2">>)
X1 == Str(<<"1+1", "es", "2">>)

\* A JSON object with the given keys; the key of the correct answer is
\* "Respuesta correcta" (PROMT, the fourth key)
Objeto(f, correcta) == Dict(f @@ ("Respuesta correcta" :> correcta))

JsonDocs ==
    [ DFull       |-> Objeto([Pregunta |-> Q1, Codigo |-> K1, Respuestas |-> A4,
                              Explicacion |-> X1], R1),
      DNoPregunta |-> Objeto([Codigo |-> K1, Respuestas |-> A4, Explicacion |-> X1], R1),
      DNoCodigo   |-> Objeto([Pregunta |-> Q1, Respuestas |-> A4, Explicacion |-> X1], R1),
      DNoCorrecta |-> Dict([Pregunta |-> Q1, Codigo |-> K1, Respuestas |-> A4]),
      DRespStr    |-> Objeto([Pregunta |-> Q1, Codigo |-> K1,
                              Respuestas |-> Str(<<"A", ",", " ", "B", ",", " ", "C", ",", " ", "D">>),
                              Explicacion |-> X1], Str(<<"A">>)),
      DRespNum    |-> Objeto([Pregunta |-> Q1, Codigo |-> K1, Respuestas |-> Num(4),
                              Explicacion |-> X1], R1),
      DOtro       |-> Dict([status |-> Str(<<"RESOURCE_EXHAUSTED">>)]),
      DArray      |-> List(<<Str(<<"1">>)>>),
      DNumber     |-> Num(7) ]

DocNames == DOMAIN JsonDocs
TextTokens == {" ", "FENCE", "json", "x"} \cup DocNames

\* json.loads(text): one JSON document, whitespace allowed around it
NoWs(s) == SelectSeq(s, LAMBDA tok : tok # " ")

json_loads(text) ==
    LET body == NoWs(text) IN
    IF body = <<>> \/ Head(body) \notin DocNames
        THEN Raise(<<"Expecting", "value">>)
    ELSE IF Len(body) > 1
        THEN Raise(<<"Extra", "data">>)
    ELSE Return(JsonDocs[Head(body)])

\* The response of client.models.generate_content: its .text is a str or None
Response(text) == [text |-> text]

(***************************************************************************)
(* generar_pregunta                                                        *)
(***************************************************************************)
StartsWith(s, prefix) == Len(s) >= Len(prefix) /\ SubSeq(s, 1, Len(prefix)) = prefix
EndsWith(s, suffix) ==
    Len(s) >= Len(suffix) /\ SubSeq(s, Len(s) - Len(suffix) + 1, Len(s)) = suffix
DropFirst(s, n) == SubSeq(s, n + 1, Len(s))
DropLast(s, n) == SubSeq(s, 1, Len(s) - n)

\* the three consecutive ifs that clean Markdown fences off the text
limpiar(text) ==
    LET t1 == IF StartsWith(text, <<"FENCE", "json">>) THEN DropFirst(text, 2) ELSE text
        t2 == IF StartsWith(t1, <<"FENCE">>) THEN DropFirst(t1, 1) ELSE t1
    IN  IF EndsWith(t2, <<"FENCE">>) THEN DropLast(t2, 1) ELSE t2

\* str.split(","): the pieces between the commas
RECURSIVE split(_)
split(s) ==
    IF \E i \in 1..Len(s) : s[i] = ","
        THEN LET i == CHOOSE i \in 1..Len(s) : s[i] = "," /\ \A j \in 1..(i - 1) : s[j] # ","
             IN  <<SubSeq(s, 1, i - 1)>> \o split(SubSeq(s, i + 1, Len(s)))
        ELSE <<s>>

\* mutant of normalizar_respuestas: the pieces are not trimmed
normalizar_respuestas_sin_strip(respuestas) ==
    IF isinstance(respuestas, "str")
        THEN LET partes == split(respuestas.v)
             IN  List([i \in 1..Len(partes) |-> Str(partes[i])])
    ELSE IF ~isinstance(respuestas, "list")
        THEN List(<<>>)
    ELSE respuestas

\* the normalisation of the "Respuestas" value
normalizar_respuestas(respuestas) ==
    IF isinstance(respuestas, "str")
        THEN LET partes == split(respuestas.v)
             IN  List([i \in 1..Len(partes) |-> Str(strip(partes[i]))])
    ELSE IF ~isinstance(respuestas, "list")
        THEN List(<<>>)
    ELSE respuestas

\* the dict built from the parsed JSON object
construir_pregunta(pregunta_json) ==
    Dict([pregunta           |-> DictGet(pregunta_json, "Pregunta", None),
          codigo             |-> DictGet(pregunta_json, "Codigo", None),
          respuestas         |-> normalizar_respuestas(DictGet(pregunta_json, "Respuestas", None)),
          respuesta_correcta |-> DictGet(pregunta_json, "Respuesta correcta", None),
          explicacion        |-> DictGet(pregunta_json, "Explicacion", Str(<<>>))])

\* the dict returned by the except clause
ErrorRecord(detalle, texto) ==
    Dict([error   |-> Str(<<"No", "se", "pudo", "extraer", "el", "JSON">>),
          detalle |-> Str(detalle),
          texto   |-> texto])

\* the body of the try block: a returned dict or the exception it raised
try_generar(response) ==
    IF ~isinstance(response.text, "str")
        THEN Raise(<<"'NoneType'", "object", "has", "no", "attribute", "'strip'">>)
    ELSE LET parsed == json_loads(limpiar(strip(response.text.v))) IN
         IF parsed.kind = "raise"
             THEN parsed
         ELSE IF ~isinstance(parsed.value, "dict")
             THEN Raise(<<"object", "has", "no", "attribute", "'get'">>)
         ELSE Return(construir_pregunta(parsed.value.v))

\* mutant of generar_pregunta: no except clause around the parsing
generar_pregunta_sin_except(upstream) ==
    IF upstream.kind = "raise" THEN upstream ELSE try_generar(upstream.value)

\* generar_pregunta, given what client.models.generate_content did: the call
\* is made before the try statement, so what it raises leaves the function
generar_pregunta(upstream) ==
    IF upstream.kind = "raise"
        THEN upstream
    ELSE LET response == upstream.value
             body == try_generar(response)
         IN  IF body.kind = "raise"
                 THEN Return(ErrorRecord(body.msg, response.text))
                 ELSE body

(***************************************************************************)
(* What client.models.generate_content can do                              *)
(***************************************************************************)
QuotaError == <<"429", "RESOURCE_EXHAUSTED", "quota", "exceeded">>
OtherError == <<"503", "UNAVAILABLE">>
UpstreamErrors == {QuotaError, OtherError}

\* the upstream answers with a well-formed question every time
HealthyOutcomes == {Return(Response(Str(<<"DFull">>)))}

\* the upstream answers anything: errors, no text, text that is not JSON,
\* JSON that is no object, objects with keys missing, fenced or bare
UpstreamOutcomes ==
    {Raise(m) : m \in UpstreamErrors}
    \cup {Return(Response(None))}
    \cup {Return(Response(Str(s))) :
            s \in {<<"x">>, <<"DArray">>, <<"DFull">>, <<"FENCE", "json", " ", "DFull", " ", "FENCE">>,
                   <<"DNoPregunta">>, <<"DNoCorrecta">>}}

\* what generar_pregunta gives on each of these outcomes
Generado == [upstream \in UpstreamOutcomes |-> generar_pregunta(upstream)]

\* every response text of at most n tokens
Texts(n) == UNION {[1..k -> TextTokens] : k \in 0..n}

GenInputs ==
    {Raise(m) : m \in UpstreamErrors}
    \cup {Return(Response(None))}
    \cup {Return(Response(Str(s))) : s \in Texts(MaxTextLen)}

(***************************************************************************)
(* pregunta_cache = queue.Queue(maxsize=CACHE_SIZE)                        *)
(* An item is a dict object: q is the dict, id its identity (the order in  *)
(* which the worker put it; 0 for an object that never was in the queue).  *)
(***************************************************************************)
Item(id, q) == [id |-> id, q |-> q]

maxsize == CACHE_SIZE

\* mutant of qsize: the size is never read right
qsize_siempre_cero(queue) == 0

\* Queue.qsize()
qsize(queue) == Len(queue)

\* mutant of put: the item goes to the front of the queue
put_al_frente(queue, item) == <<item>> \o queue

\* Queue.put(item) waits while the queue is full (maxsize > 0)
put_blocks(queue) == maxsize > 0 /\ qsize(queue) >= maxsize
put(queue, item) == Append(queue, item)

\* mutant of get_item: the newest item is taken
get_ultimo(queue) == queue[Len(queue)]

\* Queue.get(timeout): the oldest item; Empty once the timeout has passed
\* with the queue still empty
get_item(queue) == Head(queue)
\* mutant of get_rest: get() leaves the record in the queue
get_rest_nada(queue) == queue

get_rest(queue) == Tail(queue)

(***************************************************************************)
(* precargar_preguntas: the refill worker                                  *)
(***************************************************************************)
\* mutants of bajo_umbral: another threshold, or none
bajo_umbral_menos_uno(queue) == qsize(queue) < CACHE_MIN - 1
bajo_umbral_inclusive(queue) == qsize(queue) <= CACHE_MIN
bajo_umbral_siempre(queue) == TRUE

\* the test of the while loop's if
bajo_umbral(queue) == qsize(queue) < CACHE_MIN

\* mutants of es_valida: the keys are not looked at
es_valida_siempre(pregunta) == TRUE
es_valida_dict(pregunta) == isinstance(pregunta, "dict")

\* "Solo la guarda si es valida"
es_valida(pregunta) ==
    /\ isinstance(pregunta, "dict")
    /\ "pregunta" \in DOMAIN pregunta.v
    /\ "codigo" \in DOMAIN pregunta.v

\* mutant of pausa_error: the error text is not inspected
pausa_error_fija(msg) == 5

\* the sleep of the except clause
pausa_error(msg) == IF StrContains(msg, QUOTA_MARKER) THEN 35 ELSE 5

WorkerCheck ==
    /\ wpc = "check"
    /\ IF bajo_umbral(pregunta_cache)
          THEN wpc' = "generate" /\ pausa' = 0
          ELSE wpc' = "sleep" /\ pausa' = 2
    /\ UNCHANGED <<pregunta_cache, enq, entregadas, llamadas, wpregunta, wup,
                   cpc, cret, cup, espera, obtenidas, gin, gout, qvars>>

\* mutant of WorkerGenerate: no except clause, an exception ends the thread
WorkerGenerate_sin_except(outcomes) ==
    /\ wpc = "generate"
    /\ \E upstream \in outcomes :
         LET r == Generado[upstream] IN
         /\ llamadas' = llamadas + 1
         /\ wup' = upstream
         /\ IF r.kind = "return"
               THEN /\ wpregunta' = r.value
                    /\ IF es_valida(r.value)
                          THEN wpc' = "put" /\ pausa' = 0
                          ELSE wpc' = "sleep" /\ pausa' = 1
               ELSE /\ wpc' = "dead"
                    /\ pausa' = 0
                    /\ UNCHANGED wpregunta
    /\ UNCHANGED <<pregunta_cache, enq, entregadas, cpc, cret, cup, espera, obtenidas, gin, gout, qvars>>

WorkerGenerate(outcomes) ==
    /\ wpc = "generate"
    /\ \E upstream \in outcomes :
         LET r == Generado[upstream] IN
         /\ llamadas' = llamadas + 1
         /\ wup' = upstream
         /\ IF r.kind = "return"
               THEN /\ wpregunta' = r.value
                    /\ IF es_valida(r.value)
                          THEN wpc' = "put" /\ pausa' = 0
                          ELSE wpc' = "sleep" /\ pausa' = 1
               ELSE /\ wpc' = "sleep"
                    /\ pausa' = pausa_error(r.msg)
                    /\ UNCHANGED wpregunta
    /\ UNCHANGED <<pregunta_cache, enq, entregadas, cpc, cret, cup, espera, obtenidas, gin, gout, qvars>>

WorkerPut ==
    /\ wpc = "put"
    /\ ~put_blocks(pregunta_cache)
    /\ pregunta_cache' = put(pregunta_cache, Item(enq + 1, wpregunta))
    /\ enq' = enq + 1
    /\ wpc' = "sleep"
    /\ pausa' = 1
    /\ UNCHANGED <<entregadas, llamadas, wpregunta, wup, cpc, cret, cup, espera, obtenidas, gin, gout, qvars>>

WorkerWake ==
    /\ wpc = "sleep"
    /\ wpc' = "check"
    /\ pausa' = 0
    /\ wup' = NoOutcome
    /\ UNCHANGED <<pregunta_cache, enq, entregadas, llamadas, wpregunta,
                   cpc, cret, cup, espera, obtenidas, gin, gout, qvars>>

(***************************************************************************)
(* obtener_pregunta_cache: the accessor                                    *)
(***************************************************************************)
Sentinel ==
    Dict([pregunta           |-> Str(<<"Limite", "de", "uso", "alcanzado!">>),
          codigo             |-> Str(<<>>),
          respuestas         |-> List(<<>>),
          respuesta_correcta |-> Str(<<>>),
          explicacion        |-> Str(<<"Se", "ha", "superado", "el", "limite", "de", "uso",
                                       "de", "la", "API.">>)])

\* the except clause, given what its generar_pregunta() call did
obtener_fallback(generada) ==
    IF generada.kind = "raise"
        THEN generada
    ELSE LET pregunta == generada.value IN
         IF /\ "error" \in DOMAIN pregunta.v
            /\ StrContains(DictGet(pregunta.v, "detalle", Str(<<>>)).v, QUOTA_MARKER)
             THEN Return(Item(0, Sentinel))
             ELSE Return(Item(0, pregunta))

ObtainCall(c) ==
    /\ cpc[c] = "idle"
    /\ obtenidas < MaxObtain
    /\ obtenidas' = obtenidas + 1
    /\ cpc' = [cpc EXCEPT ![c] = "get"]
    /\ UNCHANGED <<pregunta_cache, enq, entregadas, llamadas, wpc, wpregunta, wup, pausa,
                   cret, cup, espera, gin, gout, qvars>>

ObtainGet(c) ==
    /\ cpc[c] = "get"
    /\ qsize(pregunta_cache) > 0
    /\ cret' = [cret EXCEPT ![c] = Return(get_item(pregunta_cache))]
    /\ entregadas' = Append(entregadas, get_item(pregunta_cache).id)
    /\ pregunta_cache' = get_rest(pregunta_cache)
    /\ cpc' = [cpc EXCEPT ![c] = "returned"]
    /\ UNCHANGED <<enq, llamadas, wpc, wpregunta, wup, pausa, cup, espera, obtenidas, gin, gout, qvars>>

\* get() finds the queue empty and waits on not_empty (timeout 10 s)
ObtainWait(c) ==
    /\ cpc[c] = "get"
    /\ qsize(pregunta_cache) = 0
    /\ ~espera[c]
    /\ espera' = [espera EXCEPT ![c] = TRUE]
    /\ UNCHANGED <<pregunta_cache, enq, entregadas, llamadas, wpc, wpregunta, wup, pausa,
                   cpc, cret, cup, obtenidas, gin, gout, qvars>>

\* mutant of ObtainTimeout: get() without a timeout
ObtainTimeout_nunca(c) == FALSE /\ UNCHANGED vars

\* mutant of ObtainTimeout: Empty is raised whatever the queue holds
ObtainTimeout_sin_esperar(c) ==
    /\ cpc[c] = "get"
    /\ cpc' = [cpc EXCEPT ![c] = "fallback"]
    /\ UNCHANGED <<pregunta_cache, enq, entregadas, llamadas, wpc, wpregunta, wup, pausa,
                   cret, cup, espera, obtenidas, gin, gout, qvars>>

\* the 10 s have passed and the queue is still empty: get() raises Empty
ObtainTimeout(c) ==
    /\ cpc[c] = "get"
    /\ espera[c]
    /\ qsize(pregunta_cache) = 0
    /\ cpc' = [cpc EXCEPT ![c] = "fallback"]
    /\ UNCHANGED <<pregunta_cache, enq, entregadas, llamadas, wpc, wpregunta, wup, pausa,
                   cret, cup, espera, obtenidas, gin, gout, qvars>>

\* mutant of ObtainFallback: the generated record is also put in the queue
ObtainFallback_guarda(c, outcomes) ==
    /\ cpc[c] = "fallback"
    /\ \E upstream \in outcomes :
         LET r == obtener_fallback(Generado[upstream]) IN
         /\ llamadas' = llamadas + 1
         /\ cup' = [cup EXCEPT ![c] = upstream]
         /\ cret' = [cret EXCEPT ![c] = r]
         /\ cpc' = [cpc EXCEPT ![c] = IF r.kind = "return" THEN "returned" ELSE "raised"]
         /\ pregunta_cache' = IF r.kind = "return" /\ ~put_blocks(pregunta_cache)
                                 THEN put(pregunta_cache, r.value)
                                 ELSE pregunta_cache
    /\ UNCHANGED <<enq, entregadas, wpc, wpregunta, wup, pausa, espera,
                   obtenidas, gin, gout, qvars>>

ObtainFallback(c, outcomes) ==
    /\ cpc[c] = "fallback"
    /\ \E upstream \in outcomes :
         LET r == obtener_fallback(Generado[upstream]) IN
         /\ llamadas' = llamadas + 1
         /\ cup' = [cup EXCEPT ![c] = upstream]
         /\ cret' = [cret EXCEPT ![c] = r]
         /\ cpc' = [cpc EXCEPT ![c] = IF r.kind = "return" THEN "returned" ELSE "raised"]
    /\ UNCHANGED <<pregunta_cache, enq, entregadas, wpc, wpregunta, wup, pausa, espera,
                   obtenidas, gin, gout, qvars>>

\* the caller has the result (or the exception); the handler is over
ObtainDone(c) ==
    /\ cpc[c] \in {"returned", "raised"}
    /\ cpc' = [cpc EXCEPT ![c] = "idle"]
    /\ cret' = [cret EXCEPT ![c] = NoOutcome]
    /\ cup' = [cup EXCEPT ![c] = NoOutcome]
    /\ espera' = [espera EXCEPT ![c] = FALSE]
    /\ UNCHANGED <<pregunta_cache, enq, entregadas, llamadas, wpc, wpregunta, wup, pausa,
                   obtenidas, gin, gout, qvars>>

(***************************************************************************)
(* Specifications                                                          *)
(***************************************************************************)
InitCache ==
    /\ pregunta_cache = <<>>
    /\ enq = 0
    /\ entregadas = <<>>
    /\ llamadas = 0
    /\ wpc = "check"
    /\ wpregunta = NoValue
    /\ pausa = 0
    /\ cpc = [c \in Consumers |-> "idle"]
    /\ cret = [c \in Consumers |-> NoOutcome]
    /\ cup = [c \in Consumers |-> NoOutcome]
    /\ espera = [c \in Consumers |-> FALSE]
    /\ obtenidas = 0
    /\ wup = NoOutcome

NoSession == [t |-> "nosession", v |-> <<>>]

\* no client request is modelled outside SpecQuiz
InitNoQuiz ==
    variante = "flask" /\ session = NoSession /\ qres = "none" /\ qobt = 0 /\ qans = 0

Init == InitCache /\ gin = NoOutcome /\ gout = NoOutcome /\ InitNoQuiz

\* Spec: worker and consumers against an arbitrary upstream
Generate == llamadas < MaxCalls /\ WorkerGenerate(UpstreamOutcomes)
Fallback(c) == llamadas < MaxCalls /\ ObtainFallback(c, UpstreamOutcomes)

Next ==
    \/ WorkerCheck
    \/ Generate
    \/ WorkerPut
    \/ WorkerWake
    \/ \E c \in Consumers :
         \/ ObtainCall(c)
         \/ ObtainGet(c)
         \/ ObtainWait(c)
         \/ ObtainTimeout(c)
         \/ Fallback(c)
         \/ ObtainDone(c)

Spec == Init /\ [][Next]_vars

\* SpecFill: worker and consumers against an upstream that always answers
\* with a well-formed question, for as long as the worker asks
GenerateOk == WorkerGenerate(HealthyOutcomes)
FallbackOk(c) == ObtainFallback(c, HealthyOutcomes)

NextFill ==
    \/ WorkerCheck
    \/ GenerateOk
    \/ WorkerPut
    \/ WorkerWake
    \/ \E c \in Consumers :
         \/ ObtainCall(c)
         \/ ObtainGet(c)
         \/ ObtainWait(c)
         \/ ObtainTimeout(c)
         \/ FallbackOk(c)
         \/ ObtainDone(c)

SpecFill == Init /\ [][NextFill]_vars

(***************************************************************************)
(* Specifications with fairness, for the liveness properties.  The worker  *)
(* is a thread of its own: the scheduler runs it, time.sleep returns and   *)
(* so does the upstream call (WorkerFair, WorkerFairOk).  A consumer is a  *)
(* request thread: its get() returns an item or times out after 10 s, and  *)
(* its fallback call returns (ObtainFairOk).                               *)
(***************************************************************************)
ObtainCallLive(c) == obtenidas < MaxObtainLive /\ ObtainCall(c)

NextLive ==
    \/ WorkerCheck
    \/ Generate
    \/ WorkerPut
    \/ WorkerWake
    \/ \E c \in Consumers :
         \/ ObtainCallLive(c)
         \/ ObtainGet(c)
         \/ ObtainWait(c)
         \/ ObtainTimeout(c)
         \/ Fallback(c)
         \/ ObtainDone(c)

NextFillLive ==
    \/ WorkerCheck
    \/ GenerateOk
    \/ WorkerPut
    \/ WorkerWake
    \/ \E c \in Consumers :
         \/ ObtainCallLive(c)
         \/ ObtainGet(c)
         \/ ObtainWait(c)
         \/ ObtainTimeout(c)
         \/ FallbackOk(c)
         \/ ObtainDone(c)

WorkerFair ==
    WF_vars(WorkerCheck) /\ WF_vars(Generate) /\ WF_vars(WorkerPut) /\ WF_vars(WorkerWake)

WorkerFairOk ==
    WF_vars(WorkerCheck) /\ WF_vars(GenerateOk) /\ WF_vars(WorkerPut) /\ WF_vars(WorkerWake)

ObtainFairOk ==
    \A c \in Consumers :
        WF_vars(ObtainGet(c) \/ ObtainWait(c) \/ ObtainTimeout(c) \/ FallbackOk(c))

\* the worker against an arbitrary upstream, scheduled fairly
FairSpec == Init /\ [][NextLive]_vars /\ WorkerFair

\* the worker against a healthy upstream, scheduled fairly
FairFill == Init /\ [][NextFillLive]_vars /\ WorkerFairOk

\* the consumers against a healthy upstream, scheduled fairly; the worker
\* may run or not, and makes at most MaxCalls calls
GenerateOkLive == llamadas < MaxCalls /\ GenerateOk

NextObtainLive ==
    \/ WorkerCheck
    \/ GenerateOkLive
    \/ WorkerPut
    \/ WorkerWake
    \/ \E c \in Consumers :
         \/ ObtainCall(c)
         \/ ObtainGet(c)
         \/ ObtainWait(c)
         \/ ObtainTimeout(c)
         \/ FallbackOk(c)
         \/ ObtainDone(c)

FairObtain == Init /\ [][NextObtainLive]_vars /\ ObtainFairOk

\* SpecGen: generar_pregunta alone, on every upstream outcome of GenInputs
InitGen == InitCache /\ gin \in GenInputs /\ gout = NoOutcome /\ InitNoQuiz

GenCall ==
    /\ gout = NoOutcome
    /\ gout' = generar_pregunta(gin)
    /\ UNCHANGED <<pregunta_cache, enq, entregadas, llamadas, wpc, wpregunta, wup, pausa,
                   cpc, cret, cup, espera, obtenidas, gin, qvars>>

NextGen == GenCall

SpecGen == InitGen /\ [][NextGen]_vars

(***************************************************************************)
(* The quiz routes: /quiz of app.py (Flask) and of main.py (FastAPI), and  *)
(* the one client's session cookie.  A request is one step; the call of    *)
(* obtener_pregunta_cache inside it gives any of the outcomes that call    *)
(* can have.  session['inicio'] (a clock reading) is left out, and         *)
(* session['errores'] is kept as the number of its entries.                *)
(***************************************************************************)
\* what obtener_pregunta_cache can give its caller: a record out of the
\* queue, or what its fallback gives
ObtainOutcomes ==
    {Return(Generado[u].value) :
        u \in {w \in UpstreamOutcomes :
                  Generado[w].kind = "return" /\ es_valida(Generado[w].value)}}
    \cup {LET r == obtener_fallback(Generado[u])
          IN  IF r.kind = "return" THEN Return(r.value.q) ELSE r : u \in UpstreamOutcomes}

Session(puntaje, total, errores, pregunta_actual) ==
    [t |-> "session",
     v |-> [puntaje |-> puntaje, total |-> total, errores |-> errores,
            pregunta_actual |-> pregunta_actual]]

\* all(k in session for k in [...])
sesion_completa(s) == s.t = "session"

\* the truth value of the selection: None and '' are false
truthy(seleccion) == isinstance(seleccion, "str") /\ seleccion.v # <<>>

\* the values of the form field 'respuesta': a wrong answer, the right
\* answer with a blank before it, and (Flask: request.form.get) no field
Selecciones ==
    {Str(<<"1">>), Str(<<" ", "2">>)} \cup (IF variante = "flask" THEN {None} ELSE {})

\* the answer handling of a POST on the session s, up to the test of the
\* total: the session it leaves, and the exception if one is raised
responder(s, seleccion) ==
    LET pregunta_actual == s.v.pregunta_actual.v IN
    IF "respuesta_correcta" \notin DOMAIN pregunta_actual
        THEN [kind |-> "raise", msg |-> "KeyError", session |-> s]
    ELSE LET correcta == pregunta_actual.respuesta_correcta
             contada == [s EXCEPT !.v.total = @ + 1]
         IN  IF truthy(seleccion) /\ ~isinstance(correcta, "str")
                 THEN [kind |-> "raise", msg |-> "AttributeError", session |-> contada]
             ELSE IF truthy(seleccion) /\ strip(seleccion.v) = strip(correcta.v)
                 THEN [kind |-> "return",
                       session |-> [contada EXCEPT !.v.puntaje = @ + 1]]
             ELSE IF {"pregunta", "codigo", "respuestas"} \subseteq DOMAIN pregunta_actual
                 THEN [kind |-> "return",
                       session |-> [contada EXCEPT !.v.errores = @ + 1]]
             ELSE [kind |-> "raise", msg |-> "KeyError", session |-> contada]

\* the session a request that raised leaves stored: Flask saves the modified
\* session with the error response unless exceptions propagate (debug,
\* testing); main.py writes the cookie only at the end of the handler
guardada_tras_error(modificada) ==
    IF variante = "flask" THEN {modificada, session} ELSE {session}

\* the session after the initialisation at the head of the handler, with the
\* calls and answers counted from there; exc when obtener_pregunta_cache raised
Iniciadas ==
    IF sesion_completa(session)
        THEN {[s |-> session, n |-> qobt, a |-> qans, exc |-> FALSE]}
        ELSE {IF o.kind = "return"
                 THEN [s |-> Session(0, 0, 0, o.value), n |-> 1, a |-> 0, exc |-> FALSE]
                 ELSE [s |-> NoSession, n |-> 1, a |-> 0, exc |-> TRUE] :
              o \in ObtainOutcomes}

cvars == <<pregunta_cache, enq, entregadas, llamadas, wpc, wpregunta, wup, pausa,
           cpc, cret, cup, espera, obtenidas, gin, gout>>

\* GET /: main.py deletes the session cookie, app.py leaves the session
QuizInicio ==
    /\ qres' = "inicio"
    /\ session' = IF variante = "fastapi" THEN NoSession ELSE session
    /\ UNCHANGED <<variante, qobt, qans, cvars>>

\* GET /quiz
QuizGet ==
    /\ \E i \in Iniciadas :
         /\ qres' = IF i.exc THEN "error_obtener" ELSE "quiz"
         /\ session' = i.s
         /\ qobt' = i.n
         /\ qans' = i.a
    /\ UNCHANGED <<variante, cvars>>

\* POST /quiz with the selection
QuizPost(seleccion) ==
    /\ qans < MaxAnswers
    /\ IF variante = "fastapi" /\ ~sesion_completa(session)
          THEN qres' = "redirect_inicio" /\ UNCHANGED <<session, qobt, qans>>
          ELSE \E i \in Iniciadas :
                 IF i.exc
                    THEN /\ qres' = "error_obtener"
                         /\ session' = i.s
                         /\ qobt' = i.n
                         /\ qans' = i.a
                    ELSE LET r == responder(i.s, seleccion) IN
                         /\ qans' = i.a + 1
                         /\ IF r.kind = "raise"
                               THEN /\ qres' = r.msg
                                    /\ session' \in guardada_tras_error(r.session)
                                    /\ qobt' = i.n
                            ELSE IF r.session.v.total >= QUIZ_LEN
                               THEN /\ qres' = "resultado"
                                    /\ session' = NoSession
                                    /\ qobt' = i.n
                            ELSE \E o \in ObtainOutcomes :
                                    /\ qobt' = i.n + 1
                                    /\ IF o.kind = "raise"
                                          THEN /\ qres' = "error_obtener"
                                               /\ session' \in guardada_tras_error(r.session)
                                          ELSE /\ qres' = "quiz"
                                               /\ session' =
                                                    [r.session EXCEPT
                                                       !.v.pregunta_actual = o.value]
    /\ UNCHANGED <<variante, cvars>>

InitQuiz ==
    /\ InitCache /\ gin = NoOutcome /\ gout = NoOutcome
    /\ variante \in {"flask", "fastapi"}
    /\ session = NoSession /\ qres = "none" /\ qobt = 0 /\ qans = 0

NextQuiz ==
    \/ QuizInicio
    \/ QuizGet
    \/ \E seleccion \in Selecciones : QuizPost(seleccion)

\* SpecQuiz: one client against the quiz routes, one request after another
SpecQuiz == InitQuiz /\ [][NextQuiz]_vars

(***************************************************************************)
(* Properties                                                              *)
(***************************************************************************)
QuestionKeys == {"pregunta", "codigo", "respuestas", "respuesta_correcta", "explicacion"}
ErrorKeys == {"error", "detalle", "texto"}
EsQuestionRecord(q) == isinstance(q, "dict") /\ DOMAIN q.v = QuestionKeys
EsErrorRecord(q) == isinstance(q, "dict") /\ DOMAIN q.v = ErrorKeys

\* C1: in every reachable state the queue holds at most CACHE_SIZE records,
\* whatever the interleaving of the worker's puts and the consumers' gets.
C1_CacheBounded == Len(pregunta_cache) <= CACHE_SIZE

\* the queue at its fullest, refilled after a get, a consumer about to get
C1_Witness ==
    /\ Len(pregunta_cache) = CACHE_MIN
    /\ enq > CACHE_MIN
    /\ \E c \in Consumers : cpc[c] = "get"

\* C2: the queue is FIFO: the records leave the queue in the order the worker
\* put them, so the i-th record taken out is the i-th record put in, whichever
\* consumers took them.
C2_Fifo == \A i \in 1..Len(entregadas) : entregadas[i] = i

\* two consumers hold the first two records, the second consumer the older
C2_Witness ==
    /\ cpc[1] = "returned" /\ cpc[2] = "returned"
    /\ cret[2].value.id = 1 /\ cret[1].value.id = 2
    /\ Len(pregunta_cache) > 1

\* C3: a get on a non-empty queue gives the caller exactly the oldest record,
\* takes it out of the queue (one record fewer) and calls no generator.
C3_ObtainFromCache ==
    [][\A c \in Consumers :
         (cpc[c] = "get" /\ cpc'[c] # "get" /\ pregunta_cache # <<>>) =>
            /\ cpc'[c] = "returned"
            /\ cret'[c] = Return(Head(pregunta_cache))
            /\ pregunta_cache' = Tail(pregunta_cache)
            /\ Len(pregunta_cache') = Len(pregunta_cache) - 1
            /\ llamadas' = llamadas]_vars

\* the scenario: the one cached record was returned and the queue is empty
C3_Witness ==
    \E c \in Consumers :
        /\ cpc[c] = "returned"
        /\ cret[c] = Return(Item(1, construir_pregunta(JsonDocs["DFull"].v)))
        /\ enq = 1
        /\ pregunta_cache = <<>>
        /\ cup[c] = NoOutcome

\* C4 as claimed: every value obtener_pregunta_cache returns is a
\* QuestionRecord, never an ErrorRecord.
C4_NeverErrorRecord ==
    \A c \in Consumers : cpc[c] = "returned" => EsQuestionRecord(cret[c].value.q)

\* C4 amended: every value returned is a QuestionRecord or an ErrorRecord; an
\* ErrorRecord comes only from the fallback generation of a response that
\* failed to parse, never out of the queue, and its detail never carries the
\* quota marker.
C4_ErrorRecordOnlyFromFallback ==
    \A c \in Consumers :
        cpc[c] = "returned" =>
            \/ EsQuestionRecord(cret[c].value.q)
            \/ /\ EsErrorRecord(cret[c].value.q)
               /\ cret[c].value.id = 0
               /\ cup[c].kind = "return"
               /\ ~StrContains(cret[c].value.q.v.detalle.v, QUOTA_MARKER)

\* a consumer was given the ErrorRecord of a response that is not JSON
C4_Witness ==
    \E c \in Consumers :
        /\ cpc[c] = "returned"
        /\ EsErrorRecord(cret[c].value.q)
        /\ cup[c] = Return(Response(Str(<<"x">>)))

\* C5 as claimed: obtener_pregunta_cache never lets an exception reach its
\* caller, whatever the get and the fallback generation do.
C5_NeverRaises == \A c \in Consumers : cpc[c] # "raised"

\* C6 as claimed: when the get times out and the upstream call of the fallback
\* fails with the quota marker, the caller is given the sentinel record.
C6_QuotaGivesSentinel ==
    \A c \in Consumers :
        (/\ cpc[c] \in {"returned", "raised"}
         /\ cup[c].kind = "raise"
         /\ StrContains(cup[c].msg, QUOTA_MARKER)) =>
            (cpc[c] = "returned" /\ cret[c] = Return(Item(0, Sentinel)))

\* C7 as claimed: generar_pregunta never raises; a failure of the upstream
\* call too gives an ErrorRecord carrying the exception message.
C7_GenerateNeverRaises ==
    gout # NoOutcome =>
        /\ gout.kind = "return"
        /\ gin.kind = "raise" =>
              (EsErrorRecord(gout.value) /\ gout.value.v.detalle = Str(gin.msg))

\* C8: for a response whose text, fences stripped, is not one JSON document,
\* generar_pregunta returns an ErrorRecord (error, detalle, texto) whose texto
\* is the raw text, and does not raise.
EsJsonValido(text) == \E d \in DocNames : NoWs(text) = <<d>>

C8_NotJsonGivesErrorRecord ==
    (/\ gout # NoOutcome
     /\ gin.kind = "return"
     /\ isinstance(gin.value.text, "str")
     /\ ~EsJsonValido(limpiar(strip(gin.value.text.v)))) =>
        /\ gout.kind = "return"
        /\ EsErrorRecord(gout.value)
        /\ isinstance(gout.value.v.error, "str")
        /\ isinstance(gout.value.v.detalle, "str") /\ gout.value.v.detalle.v # <<>>
        /\ gout.value.v.texto = gin.value.text

\* a fenced text that is not JSON gave an ErrorRecord
C8_Witness ==
    /\ gin = Return(Response(Str(<<"FENCE", "json", "x">>)))
    /\ gout # NoOutcome
    /\ EsErrorRecord(gout.value)

\* C9: no ErrorRecord is ever in the queue: every cached record is a
\* QuestionRecord.
C9_NoErrorRecordInCache ==
    \A i \in 1..Len(pregunta_cache) :
        /\ ~EsErrorRecord(pregunta_cache[i].q)
        /\ EsQuestionRecord(pregunta_cache[i].q)

\* the worker was given an ErrorRecord and went to sleep without a put
C9_Witness ==
    /\ wpc = "sleep" /\ pausa = 1
    /\ EsErrorRecord(wpregunta)
    /\ enq >= 1
    /\ Len(pregunta_cache) = enq
    /\ llamadas > enq

\* C10 as claimed: every cached record has its prompt and its code populated;
\* a record parsed from a response lacking either key is not admitted.
C10_CachedPopulated ==
    \A i \in 1..Len(pregunta_cache) :
        /\ pregunta_cache[i].q.v.pregunta # None
        /\ pregunta_cache[i].q.v.codigo # None

\* C11: the worker never ends on an error of the generation: whatever the
\* generation does (valid record, ErrorRecord, quota error raised, other
\* error raised) the worker pauses and comes back to read the queue size;
\* the model's upstream answers MaxCalls calls, so a worker whose call is
\* never answered (llamadas = MaxCalls) is left out.
C11_WorkerAlwaysLoops ==
    /\ [](wpc \in {"check", "generate", "put", "sleep"})
    /\ (wpc = "generate") ~> (wpc = "check" \/ llamadas >= MaxCalls)
    /\ (wpc = "sleep") ~> (wpc = "check")

\* the worker is pausing 35 s after a quota error its call raised
C11_Witness ==
    /\ wpc = "sleep"
    /\ wup = Raise(QuotaError)
    /\ pausa = 35

\* C12: the pause after a generation attempt goes by its outcome: 35 s when
\* the call raised an error whose text has the quota marker, 5 s when it
\* raised any other error, 1 s when it returned (enqueued or not); during a
\* pause the worker calls no generator and puts nothing.
C12_PauseByOutcome ==
    /\ []((wpc = "sleep" /\ wup # NoOutcome) =>
            pausa = IF wup.kind = "raise"
                       THEN (IF StrContains(wup.msg, QUOTA_MARKER) THEN 35 ELSE 5)
                       ELSE 1)
    /\ [][wpc = "sleep" =>
            /\ wpc' \in {"sleep", "check"}
            /\ enq' = enq
            /\ Len(pregunta_cache') <= Len(pregunta_cache)
            /\ llamadas' # llamadas =>
                  \E c \in Consumers : cpc[c] = "fallback" /\ cpc'[c] # "fallback"]_vars

\* the worker is pausing 5 s after an error without the marker, while the
\* queue holds a record it put before
C12_Witness ==
    /\ wpc = "sleep"
    /\ wup = Raise(OtherError)
    /\ pausa = 5
    /\ Len(pregunta_cache) >= 1

\* C13: every call of obtener_pregunta_cache ends: its get returns a record
\* or, the queue staying empty, times out after 10 s, and then the call
\* returns after one generation, given that the generator call returns.
C13_ObtainReturns ==
    \A c \in Consumers :
        (cpc[c] \in {"get", "fallback"}) ~> (cpc[c] = "returned")

\* a consumer waited on the empty queue, timed out and came back with the
\* record of its own generation, the queue still empty
C13_Witness ==
    \E c \in Consumers :
        /\ cpc[c] = "returned"
        /\ espera[c]
        /\ cup[c] \in HealthyOutcomes
        /\ cret[c].value.id = 0
        /\ enq = 0

C16_GenerateIffBelowMin ==
    /\ [][(wpc = "check" /\ wpc' # "check") =>
            IF Len(pregunta_cache) < CACHE_MIN
               THEN wpc' = "generate"
               ELSE wpc' = "sleep" /\ pausa' = 2 /\ llamadas' = llamadas]_vars
    /\ [][(wpc # "generate" /\ wpc' = "generate") =>
            (wpc = "check" /\ Len(pregunta_cache) < CACHE_MIN)]_vars

\* the scenario: CACHE_MIN records put, none taken, the worker in its 2 s pause
C16_Witness ==
    /\ Len(pregunta_cache) = CACHE_MIN
    /\ enq = CACHE_MIN
    /\ entregadas = <<>>
    /\ wpc = "sleep"
    /\ pausa = 2

\* C17: obtener_pregunta_cache calls the generator only after its get timed
\* out on an empty queue; a consumer that is waiting when the worker puts a
\* record gets that record and returns it without a call of its own.
C17_FallbackOnlyAfterTimeout ==
    [][\A c \in Consumers :
         /\ (cpc[c] = "get" /\ cpc'[c] = "fallback") =>
               (espera[c] /\ pregunta_cache = <<>>)
         /\ (cup'[c] # cup[c] /\ cup'[c] # NoOutcome) => cpc[c] = "fallback"
         /\ (cpc[c] = "get" /\ espera[c] /\ pregunta_cache # <<>> /\ cpc'[c] # "get") =>
               /\ cpc'[c] = "returned"
               /\ cret'[c] = Return(Head(pregunta_cache))
               /\ cup'[c] = NoOutcome
               /\ llamadas' = llamadas]_vars

\* a consumer that waited on the empty queue holds the record the worker put
\* meanwhile; the only upstream call made is the worker's
C17_Witness ==
    \E c \in Consumers :
        /\ cpc[c] = "returned"
        /\ espera[c]
        /\ cret[c].value.id = 1
        /\ cup[c] = NoOutcome
        /\ llamadas = 1

\* C18: the worker's put never blocks: the size never exceeds CACHE_MIN, and
\* whenever the worker is about to put the queue is below CACHE_MIN, so not
\* at capacity.
C18_PutNeverBlocks ==
    /\ Len(pregunta_cache) <= CACHE_MIN
    /\ wpc = "put" => (Len(pregunta_cache) < CACHE_MIN /\ ~put_blocks(pregunta_cache))

\* the worker is about to put the record that takes the queue back to
\* CACHE_MIN, after a consumer took one
C18_Witness ==
    /\ wpc = "put"
    /\ Len(pregunta_cache) = CACHE_MIN - 1
    /\ entregadas # <<>>

\* C15: generar_pregunta coerces the answers without rejecting the record:
\* a comma-joined string becomes its pieces, each trimmed ("A, B, C, D"
\* becomes ["A","B","C","D"]), a list is kept as it is, any other value or a
\* missing key becomes the empty list; in all cases the result is a
\* QuestionRecord, not an ErrorRecord.
C15_AnswersCoerced ==
    \A d \in DocNames :
        (/\ gout # NoOutcome
         /\ gin.kind = "return"
         /\ isinstance(gin.value.text, "str")
         /\ NoWs(limpiar(strip(gin.value.text.v))) = <<d>>
         /\ isinstance(JsonDocs[d], "dict")) =>
            LET given == DictGet(JsonDocs[d].v, "Respuestas", None) IN
            /\ gout.kind = "return"
            /\ EsQuestionRecord(gout.value)
            /\ ~EsErrorRecord(gout.value)
            /\ d = "DRespStr" =>
                  gout.value.v.respuestas =
                      List(<<Str(<<"A">>), Str(<<"B">>), Str(<<"C">>), Str(<<"D">>)>>)
            /\ isinstance(given, "list") => gout.value.v.respuestas = given
            /\ (~isinstance(given, "str") /\ ~isinstance(given, "list")) =>
                  gout.value.v.respuestas = List(<<>>)

\* the response with the answers as one string, fenced, gave a record with
\* the four answers
C15_Witness ==
    /\ gin = Return(Response(Str(<<"FENCE", "DRespStr", "FENCE">>)))
    /\ gout # NoOutcome
    /\ EsQuestionRecord(gout.value)
    /\ Len(gout.value.v.respuestas.v) = 4

\* C19 as claimed: a POST of an answer while the session's question is a
\* record without a correct answer (an ErrorRecord, or a record whose
\* correct-answer key the model response lacked) ends without raising.
C19_ToleratesMissingAnswer == qres \notin {"KeyError", "AttributeError"}

\* C20 as claimed: the quiz ends on the 10th answer submitted: no stored
\* session has a total of QUIZ_LEN or more, a session makes at most QUIZ_LEN
\* calls of obtener_pregunta_cache, and the result is shown on the answer
\* number QUIZ_LEN with the session cleared.
C20_EndsOnTenthAnswer ==
    /\ sesion_completa(session) => session.v.total < QUIZ_LEN
    /\ qobt <= QUIZ_LEN
    /\ qres = "resultado" => (session = NoSession /\ qans = QUIZ_LEN)

\* C21: every cached record is delivered at most once: no identity is taken
\* out of the queue twice, no two calls hold the same queue entry, no entry
\* taken out is still in the queue, and the number of records the worker has
\* put equals the number taken out by get() plus the size of the queue.
C21_DeliveredAtMostOnce ==
    /\ \A i, j \in 1..Len(entregadas) : i # j => entregadas[i] # entregadas[j]
    /\ \A i \in 1..Len(entregadas), k \in 1..Len(pregunta_cache) :
          entregadas[i] # pregunta_cache[k].id
    /\ \A c, d \in Consumers :
          (/\ c # d
           /\ cpc[c] = "returned" /\ cpc[d] = "returned"
           /\ cret[c].value.id >= 1 /\ cret[d].value.id >= 1) =>
              cret[c].value.id # cret[d].value.id
    /\ enq = Len(entregadas) + Len(pregunta_cache)

\* two calls hold the first two records, a third record is in the queue
C21_Witness ==
    /\ cpc[1] = "returned" /\ cpc[2] = "returned"
    /\ {cret[1].value.id, cret[2].value.id} = {1, 2}
    /\ enq = 3
    /\ Len(pregunta_cache) = 1

\* C22: obtener_pregunta_cache never adds to the queue: the step of the
\* fallback leaves the queue as it was and hands its record (identity 0, never
\* in the queue) to the caller; only the worker's put makes the queue grow,
\* and every record in the queue was put by the worker.
C22_FallbackLeavesCache ==
    /\ [][\A c \in Consumers :
            (cpc[c] = "fallback" /\ cpc'[c] # "fallback") =>
               /\ pregunta_cache' = pregunta_cache
               /\ enq' = enq
               /\ cpc'[c] = "returned" =>
                    (cret'[c].kind = "return" /\ cret'[c].value.id = 0)]_vars
    /\ [][Len(pregunta_cache') > Len(pregunta_cache) =>
            (/\ wpc = "put" /\ wpc' = "sleep"
             /\ enq' = enq + 1
             /\ pregunta_cache' = Append(pregunta_cache, Item(enq', wpregunta))
             /\ cpc' = cpc)]_vars
    /\ [](\A k \in 1..Len(pregunta_cache) : pregunta_cache[k].id \in 1..enq)

\* a call came back from its fallback generation while the queue holds the
\* one record the worker put meanwhile
C22_Witness ==
    \E c \in Consumers :
        /\ cpc[c] = "returned"
        /\ cup[c] # NoOutcome
        /\ cret[c].value.id = 0
        /\ enq = 1
        /\ Len(pregunta_cache) = 1

\* C23 as claimed: in every stored session the score plus the number of error
\* entries equals the total answered.
C23_ScorePlusErrorsIsTotal ==
    sesion_completa(session) =>
        session.v.puntaje + session.v.errores = session.v.total

====
